---- MODULE Spec2Model ----
(***************************************************************************)
(* The TSLA stock chart component (src/src/components/Body.tsx): the four  *)
(* pieces of React state, the effect that fetches on a timeframe change,   *)
(* the timeframe and Retry buttons, and fetchData with its map / sort /    *)
(* slice pipeline and the summary statistics computed while rendering.     *)
(*                                                                         *)
(* Numbers are in hundredths (200.5 is 20050); NaN is a value of its own.  *)
(* A date string is the record of the instant it denotes, inside the year  *)
(* 2024 and in UTC: day (days since 2024-01-01) and hour.                  *)
(***************************************************************************)
EXTENDS Integers, Sequences, FiniteSets, TLC

VARIABLES data, loading, error, activeTimeFrame, effect, inflight, reading, last,
          pipe, dataTimeFrame

vars == <<data, loading, error, activeTimeFrame, effect, inflight, reading, last,
          pipe, dataTimeFrame>>

(* ------------------------------ bounds -------------------------------- *)

\* longest candle list enumerated exhaustively over CandlePool (SpecPipeline)
MaxLen == 3
\* length of the long candle lists (more records than the window holds)
LongLen == 60
\* most requests in flight at once
MaxInflight == 2

(* ------------------------- program constants -------------------------- *)

\* .slice(-50)
WindowSize == 50

timeFrames == {"hourly", "daily", "weekly", "monthly"}

\* useState<string | null>(null): a message is a non-empty sequence of text
\* pieces (a template literal is the concatenation of its pieces), null is
\* the empty one
Null == <<>>

\* no effect waiting to run
None == "none"

(* ------------------------------ numbers ------------------------------- *)

Num(v) == [nan |-> FALSE, v |-> v]

NaN == [nan |-> TRUE, v |-> 0]

\* parseFloat on the strings the model feeds: the longest numeric prefix,
\* NaN when there is none
parseFloat(s) ==
  CASE s = "200.5" -> Num(20050)
    [] s = "210"   -> Num(21000)
    [] s = "12abc" -> Num(1200)
    [] s = "abc"   -> NaN
    [] s = ""      -> NaN
    [] OTHER       -> NaN

\* close values as delivered: a number or a string
NumClose(v) == [k |-> "number", nan |-> FALSE, v |-> v, s |-> ""]

StrClose(s) == [k |-> "string", nan |-> FALSE, v |-> 0, s |-> s]

\* the number x of a window handed in again as a close
AsClose(x) == [k |-> "number", nan |-> x.nan, v |-> x.v, s |-> ""]

\* typeof item.close === "string" ? parseFloat(item.close) : item.close
coerceClose(close) ==
  IF close.k = "string" THEN parseFloat(close.s) ELSE [nan |-> close.nan, v |-> close.v]

(* ------------------------------- dates -------------------------------- *)

Date(day, hour) == [day |-> day, hour |-> hour]

\* 2024-01-01T00:00:00Z in seconds since the epoch
Epoch2024 == 1704067200

\* new Date(d).getTime(), in seconds
getTime(d) == Epoch2024 + (d.day * 24 + d.hour) * 3600

\* toLocaleString("en-US", {month, day, ...(hourly && {hour, minute})}):
\* the year is dropped, and the time of day too unless hourly (-1)
toLocaleString(d, timeFrame) ==
  [monthDay |-> d.day, hourMinute |-> IF timeFrame = "hourly" THEN d.hour ELSE -1]

(* ------------------------------ candles ------------------------------- *)

Candle(d, close) == [isNull |-> FALSE, date |-> d, close |-> close]

\* a null element of the candles array
NullCandle == [isNull |-> TRUE, date |-> Date(0, 0), close |-> NumClose(0)]

\* candles.map((item) => ({date, close, originalDate}))
mapItem(item, timeFrame) ==
  [date         |-> toLocaleString(item.date, timeFrame),
   close        |-> coerceClose(item.close),
   originalDate |-> item.date]

chartData(candles, timeFrame) ==
  [i \in 1..Len(candles) |-> mapItem(candles[i], timeFrame)]

\* the comparator with its operands exchanged
compareReversed(a, b) == getTime(b.originalDate) - getTime(a.originalDate)

\* (a, b) => new Date(a.originalDate).getTime() - new Date(b.originalDate).getTime()
compare(a, b) == getTime(a.originalDate) - getTime(b.originalDate)

\* the index after a sort that puts equal elements in reverse order
rankUnstable(s, i) ==
  Cardinality({ j \in 1..Len(s) :
                  \/ compare(s[j], s[i]) < 0
                  \/ compare(s[j], s[i]) = 0 /\ j > i }) + 1

\* the index the element at i has after a stable ascending sort: behind the
\* elements that compare smaller and the equal ones that came before it
rank(s, i) ==
  Cardinality({ j \in 1..Len(s) :
                  \/ compare(s[j], s[i]) < 0
                  \/ compare(s[j], s[i]) = 0 /\ j < i }) + 1

\* Array.prototype.sort with the comparator above (stable)
sort(s) ==
  LET ranks == { <<i, rank(s, i)>> : i \in 1..Len(s) }
  IN  [k \in 1..Len(s) |-> s[(CHOOSE p \in ranks : p[2] = k)[1]]]

\* s.slice(-n)
sliceLast(s, n) ==
  IF Len(s) <= n THEN s ELSE SubSeq(s, Len(s) - n + 1, Len(s))

\* the window cut before the sort instead of after it
sortedDataSliceFirst(candles, timeFrame) ==
  sort(sliceLast(chartData(candles, timeFrame), WindowSize))

\* chartData.sort(...).slice(-50) of the mapped candles
sortedData(candles, timeFrame) ==
  sliceLast(sort(chartData(candles, timeFrame)), WindowSize)

(* ------------------------------ inputs -------------------------------- *)

\* the two records of the documented scenario
Scenario == << Candle(Date(0, 0), StrClose("200.5")), Candle(Date(2, 0), NumClose(21000)) >>

CandlePool ==
  { Candle(Date(0, 0), StrClose("200.5")),
    Candle(Date(2, 0), NumClose(21000)),
    Candle(Date(2, 0), StrClose("abc")),
    Candle(Date(1, 9), StrClose("12abc")),
    Candle(Date(1, 9), NumClose(1200)) }

ShortLists == UNION { [1..n -> CandlePool] : n \in 0..MaxLen }

Ascending(n) == [i \in 1..n |-> Candle(Date(i - 1, 0), NumClose(10000 + 100 * i))]

Descending(n) == [i \in 1..n |-> Candle(Date(n - i, 0), NumClose(10000 + 100 * i))]

\* a permutation of the days 0..n-1 when 7 does not divide n
Shuffled(n) == [i \in 1..n |-> Candle(Date((7 * i) % n, 0), NumClose(10000 + 100 * i))]

\* every instant twice, newest first
Paired(n) == [i \in 1..n |-> Candle(Date((n - i) \div 2, 12), NumClose(10000 + 100 * i))]

LongLists ==
  UNION { {Ascending(n), Descending(n), Shuffled(n), Paired(n)} : n \in {WindowSize + 1, LongLen} }

\* the candle lists the pipeline is run on by itself
CandleLists == ShortLists \cup LongLists

\* the candle lists the data source answers with
AnsweredLists ==
  { <<>>,
    Scenario,
    << Scenario[2], Scenario[1] >>,
    << Candle(Date(2, 0), StrClose("abc")) >>,
    << Scenario[1], NullCandle >>,
    Shuffled(WindowSize + 1),
    Descending(LongLen) }

\* sortedData of every answered list, computed once
windowTable ==
  { <<l, timeFrame, sortedData(l, timeFrame)>> : l \in AnsweredLists, timeFrame \in timeFrames }

windows(l, timeFrame) ==
  (CHOOSE e \in windowTable : e[1] = l /\ e[2] = timeFrame)[3]

(* ----------------------------- responses ------------------------------ *)

\* what the request of one fetchData call comes back with: fetch() rejects
\* (net = "reject"), or resolves with a status and a body; the body is not
\* JSON ("invalid"), is the JSON null, or is an object whose "candles" field
\* is absent, null, the number 0 ("zero"), another number ("number") or an
\* array (items)
Response(status, json, cand, items) ==
  [net |-> "ok", status |-> status, json |-> json, candles |-> cand, items |-> items]

Rejected ==
  [net |-> "reject", status |-> 0, json |-> "invalid", candles |-> "absent", items |-> <<>>]

\* the resolve slot of a step that settles no request
NoResponse ==
  [net |-> "none", status |-> 0, json |-> "invalid", candles |-> "absent", items |-> <<>>]

\* a status check that lets every response through
responseOkAlways(status) == TRUE

\* response.ok
responseOk(status) == status >= 200 /\ status <= 299

\* truthiness of result.candles: undefined, null and 0 are falsy, every
\* other number and every array, the empty one included, is truthy
truthy(cand) == cand \in {"number", "array"}

\* the candles field taken as it is, without the default
candlesAsIs(resp) == [kind |-> resp.candles, items |-> resp.items]

\* result.candles || []
candlesOrEmpty(resp) ==
  IF truthy(resp.candles)
    THEN [kind |-> resp.candles, items |-> resp.items]
    ELSE [kind |-> "array", items |-> <<>>]

\* the try block of fetchData: what it throws, or the window it computes
fetchDataTry(timeFrame, resp) ==
  LET Throw(m) == [threw |-> TRUE, message |-> m, sortedData |-> <<>>]
      candles  == candlesOrEmpty(resp)
  IN  IF resp.net = "reject" THEN Throw(<<"Failed to fetch">>)
      ELSE IF ~responseOk(resp.status)
        THEN Throw(<<"HTTP error! status: ", ToString(resp.status)>>)
      ELSE IF resp.json = "invalid"
        THEN Throw(<<"Unexpected token < in JSON at position 0">>)
      ELSE IF resp.json = "null"
        THEN Throw(<<"Cannot read properties of null (reading 'candles')">>)
      ELSE IF candles.kind \in {"absent", "null"}
        THEN Throw(<<"Cannot read properties of undefined (reading 'map')">>)
      ELSE IF candles.kind \in {"zero", "number"}
        THEN Throw(<<"candles.map is not a function">>)
      ELSE IF \E i \in 1..Len(candles.items) : candles.items[i].isNull
        THEN Throw(<<"Cannot read properties of null (reading 'date')">>)
      ELSE [threw |-> FALSE, message |-> <<>>,
            sortedData |-> windows(candles.items, timeFrame)]

\* an exception that leaves fetchData: neither the catch nor the finally ran
settleUncaught(r, d, e) ==
  IF r.threw
    THEN [data |-> d, error |-> e, loading |-> TRUE]
    ELSE [data |-> r.sortedData, error |-> e, loading |-> FALSE]

\* the state after the try / catch / finally of fetchData has run on the
\* outcome r of the try block: setData on success, setError in the catch,
\* setLoading(false) in the finally
settle(r, d, e) ==
  IF r.threw
    THEN [data |-> d, error |-> <<"Failed to fetch data: ">> \o r.message, loading |-> FALSE]
    ELSE [data |-> r.sortedData, error |-> e, loading |-> FALSE]

Statuses == {200, 404, 500}

\* the body of a response whose status is not ok is never read: one body
\* stands for all of them
Responses ==
  {Rejected}
    \cup { Response(200, "invalid", "absent", <<>>) }
    \cup { Response(200, "object", "absent", <<>>) }
    \cup { Response(s, "object", "array", Scenario) : s \in Statuses }
    \cup { Response(200, "null", "absent", <<>>) }
    \cup { Response(200, "object", c, <<>>) : c \in {"null", "zero", "number"} }
    \cup { Response(200, "object", "array", l) : l \in AnsweredLists }

(* ---------------------------- the component --------------------------- *)

\* the fetchData(timeFrame) calls standing at await response.json()
readingOf(timeFrame) ==
  reading[timeFrame][200] + reading[timeFrame][404] + reading[timeFrame][500]

\* the fetchData calls that have not run to their end, at either await
outstanding ==
  inflight["hourly"] + inflight["daily"] + inflight["weekly"] + inflight["monthly"]
    + readingOf("hourly") + readingOf("daily") + readingOf("weekly") + readingOf("monthly")

\* a start of fetchData that sends its request twice
issueTwice(bag, timeFrame) == [bag EXCEPT ![timeFrame] = @ + 2]

\* fetch(`https://chart.stockscan.io/candle/v3/TSLA/${timeFrame}/NASDAQ`):
\* one more request in flight
issue(bag, timeFrame) == [bag EXCEPT ![timeFrame] = @ + 1]

Last(op, timeFrame, resp) == [op |-> op, timeFrame |-> timeFrame, resp |-> resp]

\* the pipeline is not being run by itself
NoPipe ==
  [step |-> "none", candles |-> <<>>, timeFrame |-> "daily", sortedData |-> <<>>, again |-> <<>>]

\* the useState initial values and the first render, whose effect has not
\* run yet
Init ==
  /\ data = <<>>
  /\ loading = FALSE
  /\ error = Null
  /\ activeTimeFrame = "daily"
  /\ effect = "daily"
  /\ inflight = [t \in timeFrames |-> 0]
  /\ reading = [t \in timeFrames |-> [s \in Statuses |-> 0]]
  /\ last = Last("mount", "daily", NoResponse)
  /\ pipe = NoPipe
  /\ dataTimeFrame = None

\* disabled={loading} on the timeframe buttons
buttonDisabled == loading

\* fetchData up to its try: setLoading(true); setError(null)
started(e) == [loading |-> TRUE, error |-> Null]

\* {error && ( ... <button>Retry</button> ... )}
retryRendered == error # Null

\* useEffect(() => { fetchData(activeTimeFrame) }, [activeTimeFrame]): the
\* effect of the last render runs fetchData up to its await
useEffect ==
  /\ effect # None
  /\ outstanding < MaxInflight
  /\ loading' = started(error).loading
  /\ error' = started(error).error
  /\ inflight' = issue(inflight, effect)
  /\ effect' = None
  /\ last' = Last("effect", effect, NoResponse)
  /\ UNCHANGED <<data, activeTimeFrame, reading, pipe, dataTimeFrame>>

\* a selection that also empties the window of the granularity it leaves
handleTimeFrameChangeClearing(timeFrame) ==
  /\ ~buttonDisabled
  /\ last' = Last("select", timeFrame, NoResponse)
  /\ UNCHANGED <<reading, pipe, dataTimeFrame>>
  /\ IF timeFrame = activeTimeFrame
       THEN UNCHANGED <<data, loading, error, activeTimeFrame, effect, inflight>>
       ELSE /\ activeTimeFrame' = timeFrame
            /\ effect' = timeFrame
            /\ IF effect # None
                 THEN /\ outstanding < MaxInflight
                      /\ loading' = started(error).loading
                      /\ error' = started(error).error
                      /\ inflight' = issue(inflight, effect)
                 ELSE UNCHANGED <<loading, error, inflight>>
            /\ data' = <<>>

\* onClick={() => handleTimeFrameChange(timeFrame.key)}: setActiveTimeFrame.
\* Setting the value the state already has renders nothing. Otherwise React
\* first runs the effect a previous render left waiting, then renders with
\* the new activeTimeFrame, which leaves the effect of that render waiting.
handleTimeFrameChange(timeFrame) ==
  /\ ~buttonDisabled
  /\ last' = Last("select", timeFrame, NoResponse)
  /\ UNCHANGED <<reading, pipe, dataTimeFrame>>
  /\ IF timeFrame = activeTimeFrame
       THEN UNCHANGED <<data, loading, error, activeTimeFrame, effect, inflight>>
       ELSE /\ activeTimeFrame' = timeFrame
            /\ effect' = timeFrame
            /\ IF effect # None
                 THEN /\ outstanding < MaxInflight
                      /\ loading' = started(error).loading
                      /\ error' = started(error).error
                      /\ inflight' = issue(inflight, effect)
                 ELSE UNCHANGED <<loading, error, inflight>>
            /\ UNCHANGED data

\* a Retry button that fetches the default granularity again
retryDefault ==
  /\ error # Null
  /\ outstanding + (IF effect # None THEN 2 ELSE 1) <= MaxInflight
  /\ loading' = TRUE
  /\ error' = Null
  /\ inflight' = IF effect # None
                   THEN issue(issue(inflight, "daily"), effect)
                   ELSE issue(inflight, "daily")
  /\ effect' = None
  /\ last' = Last("retry", "daily", NoResponse)
  /\ UNCHANGED <<data, activeTimeFrame, reading, pipe, dataTimeFrame>>

\* onClick={() => fetchData(activeTimeFrame)} of the Retry button: fetchData
\* up to its await; the render it causes runs a waiting effect first
retry ==
  /\ retryRendered
  /\ outstanding + (IF effect # None THEN 2 ELSE 1) <= MaxInflight
  /\ loading' = started(error).loading
  /\ error' = started(error).error
  /\ inflight' = IF effect # None
                   THEN issue(issue(inflight, activeTimeFrame), effect)
                   ELSE issue(inflight, activeTimeFrame)
  /\ effect' = None
  /\ last' = Last("retry", activeTimeFrame, NoResponse)
  /\ UNCHANGED <<data, activeTimeFrame, reading, pipe, dataTimeFrame>>

\* the response as fetchData has it before the body is read
headOf(resp) == [resp EXCEPT !.json = "unread", !.candles = "absent", !.items = <<>>]

\* fetch() resolved and response.ok holds: the call goes on to
\* await response.json()
awaitsBody(resp) == resp.net = "ok" /\ responseOk(resp.status)

\* a fetchData(timeFrame) call from await fetch(...) to its next await or
\* to its end: fetch() rejects or resolves with a status that is not ok and
\* the catch and the finally run, or the call stops at response.json(). A
\* response takes a network round trip, so the effect of the last render
\* has run by then.
fetchDataResponse(timeFrame, resp) ==
  /\ inflight[timeFrame] > 0
  /\ effect = None
  /\ inflight' = [inflight EXCEPT ![timeFrame] = @ - 1]
  /\ IF awaitsBody(resp)
       THEN /\ reading' = [reading EXCEPT ![timeFrame][resp.status] = @ + 1]
            /\ last' = Last("response", timeFrame, headOf(resp))
            /\ UNCHANGED <<data, error, loading, dataTimeFrame>>
       ELSE /\ LET s == settle(fetchDataTry(timeFrame, resp), data, error)
               IN  /\ data' = s.data
                   /\ error' = s.error
                   /\ loading' = s.loading
            /\ last' = Last("resume", timeFrame, resp)
            /\ UNCHANGED <<reading, dataTimeFrame>>
  /\ UNCHANGED <<activeTimeFrame, effect, pipe>>

\* the rest of a fetchData(timeFrame) call, from await response.json() on:
\* the body of the response arrives, resp is the response with its body
fetchDataResume(timeFrame, resp) ==
  /\ resp.net = "ok"
  /\ reading[timeFrame][resp.status] > 0
  /\ effect = None
  /\ LET r == fetchDataTry(timeFrame, resp)
         s == settle(r, data, error)
     IN  /\ data' = s.data
         /\ error' = s.error
         /\ loading' = s.loading
         /\ dataTimeFrame' = IF r.threw THEN dataTimeFrame ELSE timeFrame
  /\ reading' = [reading EXCEPT ![timeFrame][resp.status] = @ - 1]
  /\ last' = Last("resume", timeFrame, resp)
  /\ UNCHANGED <<activeTimeFrame, effect, inflight, pipe>>

Next ==
  \/ useEffect
  \/ \E timeFrame \in timeFrames : handleTimeFrameChange(timeFrame)
  \/ retry
  \/ \E timeFrame \in timeFrames, resp \in Responses : fetchDataResponse(timeFrame, resp)
  \/ \E timeFrame \in timeFrames, resp \in Responses : fetchDataResume(timeFrame, resp)

Spec == Init /\ [][Next]_vars

(* ------------------------- the pipeline alone ------------------------- *)

\* a candle list and a timeFrame handed to the map / sort / slice pipeline
InitPipeline ==
  /\ data = <<>>
  /\ loading = FALSE
  /\ error = Null
  /\ activeTimeFrame = "daily"
  /\ effect = "daily"
  /\ inflight = [t \in timeFrames |-> 0]
  /\ reading = [t \in timeFrames |-> [s \in Statuses |-> 0]]
  /\ last = Last("mount", "daily", NoResponse)
  /\ dataTimeFrame = None
  /\ \E l \in CandleLists, timeFrame \in timeFrames :
       pipe = [step |-> "input", candles |-> l, timeFrame |-> timeFrame,
               sortedData |-> <<>>, again |-> <<>>]

\* lines 49-65 run on the input
normalize ==
  /\ pipe.step = "input"
  /\ pipe' = [pipe EXCEPT !.step = "output",
                          !.sortedData = sortedData(pipe.candles, pipe.timeFrame)]
  /\ UNCHANGED <<data, loading, error, activeTimeFrame, effect, inflight, reading, last,
                 dataTimeFrame>>

\* a point of a window as a raw record: its source timestamp and its price
asRaw(point) == Candle(point.originalDate, AsClose(point.close))

\* lines 49-65 run on their own result
renormalize ==
  /\ pipe.step = "output"
  /\ pipe' = [pipe EXCEPT !.step = "again",
                          !.again = sortedData([i \in 1..Len(pipe.sortedData) |->
                                                  asRaw(pipe.sortedData[i])],
                                               pipe.timeFrame)]
  /\ UNCHANGED <<data, loading, error, activeTimeFrame, effect, inflight, reading, last,
                 dataTimeFrame>>

NextPipeline == normalize \/ renormalize

SpecPipeline == InitPipeline /\ [][NextPipeline]_vars

(* ------------------------- summary statistics ------------------------- *)

\* a chart block rendered without looking at data.length
statsRenderedUnguarded == ~loading /\ error = Null

\* {!loading && !error && data.length > 0 && ( ... {data.length > 0 && ( stats )} )}
statsRendered == ~loading /\ error = Null /\ Len(data) > 0

anyNaN(d) == \E i \in 1..Len(d) : d[i].close.nan

\* data[data.length - 1]?.close
currentPrice(d) == d[Len(d)].close

\* Math.max(...data.map(d => d.close)): NaN as soon as one argument is NaN
highest(d) ==
  IF anyNaN(d) THEN NaN
  ELSE Num(CHOOSE m \in { d[i].close.v : i \in 1..Len(d) } :
             \A i \in 1..Len(d) : d[i].close.v <= m)

\* Math.min(...data.map(d => d.close))
lowest(d) ==
  IF anyNaN(d) THEN NaN
  ELSE Num(CHOOSE m \in { d[i].close.v : i \in 1..Len(d) } :
             \A i \in 1..Len(d) : d[i].close.v >= m)

RECURSIVE sumTo(_, _)
sumTo(d, n) == IF n = 0 THEN 0 ELSE sumTo(d, n - 1) + d[n].close.v

\* data.reduce((sum, d) => sum + d.close, 0) / data.length, as the fraction
\* sum / count
average(d) ==
  [nan |-> anyNaN(d), sum |-> IF anyNaN(d) THEN 0 ELSE sumTo(d, Len(d)), count |-> Len(d)]

\* what one statistic evaluates to before .toFixed(2): the number num / den,
\* NaN, an infinity or undefined
Cell(kind, num, den) == [kind |-> kind, num |-> num, den |-> den]

cellOf(x) == IF x.nan THEN Cell("NaN", 0, 1) ELSE Cell("number", x.v, 1)

\* the four expressions of the Summary Stats block on the window d; on the
\* empty one d[-1]?.close is undefined, Math.max() is -Infinity, Math.min()
\* is Infinity and 0 / 0 is NaN
summaryStats(d) ==
  IF Len(d) = 0
    THEN [current |-> Cell("undefined", 0, 1), highest |-> Cell("-Infinity", 0, 1),
          lowest  |-> Cell("Infinity", 0, 1),  average |-> Cell("NaN", 0, 1)]
    ELSE [current |-> cellOf(currentPrice(d)),
          highest |-> cellOf(highest(d)),
          lowest  |-> cellOf(lowest(d)),
          average |-> IF average(d).nan THEN Cell("NaN", 0, 1)
                      ELSE Cell("number", average(d).sum, average(d).count)]

\* nothing in the place of a statistic
NoStats ==
  [current |-> Cell("none", 0, 1), highest |-> Cell("none", 0, 1),
   lowest  |-> Cell("none", 0, 1), average |-> Cell("none", 0, 1)]

\* what the return statement puts on the page in the current state
render ==
  [spinner  |-> loading,
   errorBox |-> retryRendered,
   heading  |-> IF statsRendered THEN activeTimeFrame ELSE None,
   chart    |-> IF statsRendered THEN data ELSE <<>>,
   stats    |-> IF statsRendered THEN summaryStats(data) ELSE NoStats,
   noData   |-> ~loading /\ error = Null /\ Len(data) = 0]

(* ------------------------------ helpers ------------------------------- *)

TypeOK ==
  /\ loading \in BOOLEAN
  /\ activeTimeFrame \in timeFrames
  /\ effect \in timeFrames \cup {None}
  /\ outstanding <= MaxInflight
  /\ Len(data) <= LongLen

\* the fetches issued and not yet answered, and the one the waiting effect
\* is going to issue
pendingFetches == outstanding + (IF effect # None THEN 1 ELSE 0)

\* the step just taken ran a fetchData call to its end
resumed == last.op = "resume"

\* the responses on which the try block of fetchData throws
isFailure(resp) ==
  \/ resp.net = "reject"
  \/ resp.status < 200
  \/ resp.status > 299
  \/ resp.json # "object"
  \/ resp.candles = "number"
  \/ resp.candles = "array" /\ \E i \in 1..Len(resp.items) : resp.items[i].isNull

(* ------------------------------- claims ------------------------------- *)

\* C1 (as claimed): a fetch that succeeds after another granularity has
\* become active is discarded: it leaves data, loading and error as they were.
C1_StaleSuccessDiscarded ==
  [][ (last'.op = "resume" /\ last'.timeFrame # activeTimeFrame' /\ ~isFailure(last'.resp))
        => (data' = data /\ loading' = loading /\ error' = error) ]_vars

\* C2 (as claimed): a fetch that fails after another granularity has become
\* active is discarded: it changes neither error nor loading.
C2_StaleFailureDiscarded ==
  [][ (last'.op = "resume" /\ last'.timeFrame # activeTimeFrame' /\ isFailure(last'.resp))
        => (error' = error /\ loading' = loading) ]_vars

\* C3 (as claimed): a selection is accepted in every state, the timeframe
\* buttons are never disabled, and after every selection, the active
\* granularity included, a fetch for the selected granularity is on its way.
C3_SelectAcceptedEverywhere ==
  /\ ~buttonDisabled
  /\ last.op = "select" => (activeTimeFrame = last.timeFrame /\ effect = last.timeFrame)

\* C4 (as claimed): in every state some user event is accepted: a timeframe
\* button is enabled, also while loading, or the Retry button is there.
C4_UserCanAlwaysAct ==
  /\ loading => ~buttonDisabled
  /\ ~buttonDisabled \/ retryRendered

\* the points of d are in non-decreasing order of their source timestamp
isSorted(d) ==
  \A i \in 1..Len(d), j \in 1..Len(d) :
    i < j => getTime(d[i].originalDate) <= getTime(d[j].originalDate)

\* C5: in every reachable state the window has at most 50 points, in
\* non-decreasing order of source timestamp by array position.
C5_WindowSortedAndBounded ==
  /\ Len(data) <= 50
  /\ isSorted(data)

\* C5 witness: a response with more than 50 records, newest first, has been
\* turned into a full window.
C5_Witness ==
  /\ resumed
  /\ last.resp.items = Descending(LongLen)
  /\ Len(data) = 50
  /\ data[1].originalDate # last.resp.items[1].date

\* how often x occurs in s
count(s, x) == Cardinality({ i \in 1..Len(s) : s[i] = x })

\* w holds min(n, 50) of the records of all, oldest first, and no record it
\* leaves out is newer than one it holds
isNewestWindow(w, all) ==
  /\ Len(w) = IF Len(all) <= 50 THEN Len(all) ELSE 50
  /\ isSorted(w)
  /\ \A i \in 1..Len(w) : count(w, w[i]) <= count(all, w[i])
  /\ \A i \in 1..Len(all) :
       count(all, all[i]) > count(w, all[i])
         => getTime(all[i].originalDate) <= getTime(w[1].originalDate)

\* C6: the window is cut after the sort: whatever the order of the input, it
\* holds exactly the min(n, 50) records with the greatest source timestamps,
\* oldest first, and of 60 ascending records exactly the last 50.
C6_NewestKeptAfterSort ==
  pipe.step = "output" =>
    /\ isNewestWindow(pipe.sortedData, chartData(pipe.candles, pipe.timeFrame))
    /\ pipe.candles = Ascending(LongLen) =>
         pipe.sortedData =
           chartData(SubSeq(pipe.candles, LongLen - 49, LongLen), pipe.timeFrame)

\* C6 witness: more than 50 records, newest first, have gone through the
\* pipeline and the oldest ones are gone.
C6_Witness ==
  /\ pipe.step = "output"
  /\ pipe.candles = Descending(LongLen)
  /\ Len(pipe.sortedData) = 50
  /\ pipe.sortedData[50].originalDate = pipe.candles[1].date
  /\ pipe.sortedData[1].originalDate = pipe.candles[50].date

\* C7: every fetchData call that runs to its end ends loading, and when the try block
\* failed on it (network exception, non-success status, body that does not
\* parse, exception while reading or mapping the candles) the error message
\* is set, "Failed to fetch data: " followed by the reason, and Retry is
\* offered.
C7_FailuresCaught ==
  resumed =>
    /\ ~loading
    /\ isFailure(last.resp) =>
         /\ Len(error) >= 2
         /\ error[1] = "Failed to fetch data: "
         /\ retryRendered

\* C7 witness: the request of the active granularity came back with the body
\* null, on which reading the candles throws, and the controller shows the
\* failure.
C7_Witness ==
  /\ resumed
  /\ last.timeFrame = activeTimeFrame
  /\ last.resp.net = "ok"
  /\ last.resp.status = 200
  /\ last.resp.json = "null"
  /\ error = <<"Failed to fetch data: ", "Cannot read properties of null (reading 'candles')">>
  /\ ~loading
  /\ outstanding = 0

\* the text pieces of a message
pieces(message) == { message[i] : i \in 1..Len(message) }

\* C8: a response with a non-success status s leaves the window as it was,
\* ends loading and sets an error message that contains s, with Retry offered.
C8_StatusInMessage ==
  [][ (last'.op = "resume" /\ last'.resp.net = "ok"
         /\ (last'.resp.status < 200 \/ last'.resp.status > 299))
        => /\ data' = data
           /\ ~loading'
           /\ error' = <<"Failed to fetch data: ", "HTTP error! status: ", ToString(last'.resp.status)>>
           /\ ToString(last'.resp.status) \in pieces(error')
           /\ retryRendered' ]_vars

\* C8 witness: a 404 that carried a well-formed body came back while a window
\* was loaded; the window is still there and the message names 404.
C8_Witness ==
  /\ resumed
  /\ last.resp.status = 404
  /\ last.resp.candles = "array"
  /\ "404" \in pieces(error)
  /\ Len(data) = 50
  /\ ~loading

\* C9: a successful response whose body has no "candles" field gives the
\* empty window, ends loading and sets no error; when no error was shown the
\* controller is in the success status with nothing to show.
C9_MissingCandlesIsEmpty ==
  [][ (last'.op = "resume" /\ last'.resp.net = "ok" /\ last'.resp.status = 200
         /\ last'.resp.json = "object" /\ last'.resp.candles = "absent")
        => /\ data' = <<>>
           /\ ~loading'
           /\ error' = error
           /\ error = Null => (~retryRendered' /\ ~statsRendered') ]_vars

\* C9 witness: the body {} came back for the active granularity: empty
\* window, no error, not loading.
C9_Witness ==
  /\ resumed
  /\ last.timeFrame = activeTimeFrame
  /\ last.resp.status = 200
  /\ last.resp.json = "object"
  /\ last.resp.candles = "absent"
  /\ data = <<>>
  /\ error = Null
  /\ ~loading
  /\ outstanding = 0

\* C10 (as claimed): a close that does not parse is not exposed: whenever the
\* chart and the statistics are rendered, no price of the window and no
\* statistic is NaN.
C10_NaNNotExposed ==
  statsRendered =>
    /\ ~anyNaN(data)
    /\ ~currentPrice(data).nan
    /\ ~highest(data).nan
    /\ ~lowest(data).nan
    /\ ~average(data).nan

\* C11: Retry is there exactly in the Failed state (an error shown, not
\* loading), every failed request leaves it there, and pressing it keeps the
\* active granularity and the window, clears the error, sets loading and
\* issues a request for the active granularity.
C11_RetryFromFailed ==
  /\ [](retryRendered <=> (error # Null /\ ~loading))
  /\ []((resumed /\ isFailure(last.resp)) => retryRendered)
  /\ [][ last'.op = "retry" =>
           /\ retryRendered
           /\ activeTimeFrame' = activeTimeFrame
           /\ last'.timeFrame = activeTimeFrame
           /\ data' = data
           /\ loading'
           /\ error' = Null
           /\ inflight'[activeTimeFrame] > inflight[activeTimeFrame]
           /\ \A t \in timeFrames \ {activeTimeFrame, effect} : inflight'[t] = inflight[t] ]_vars

\* C11 witness: the weekly request failed and Retry has been pressed: weekly
\* is still active and its request is in flight again.
C11_Witness ==
  /\ last.op = "retry"
  /\ activeTimeFrame = "weekly"
  /\ inflight = [t \in timeFrames |-> IF t = "weekly" THEN 1 ELSE 0]
  /\ loading
  /\ error = Null

\* C12 (as claimed): the controller starts in Loading(daily): before any
\* step is taken loading is true and the daily request is in flight.
C12_StartsLoadingDaily ==
  last.op = "mount" =>
    /\ activeTimeFrame = "daily"
    /\ loading
    /\ inflight["daily"] > 0

\* C13: in every reachable state with an empty window no statistic is on
\* the page: nothing is computed from the empty list.
C13_NoStatsOnEmptyWindow ==
  Len(data) = 0 => (render.stats = NoStats /\ render.chart = <<>> /\ render.heading = None)

\* C13 witness: the active granularity came back with an empty candle list;
\* the page says that there is no data and shows no statistic.
C13_Witness ==
  /\ resumed
  /\ last.resp.status = 200
  /\ last.resp.candles = "array"
  /\ last.resp.items = <<>>
  /\ last.timeFrame = activeTimeFrame
  /\ data = <<>>
  /\ render.noData
  /\ render.stats = NoStats

\* the sum of the numbers s[1] .. s[n], from the last one down
RECURSIVE total(_, _)
total(s, n) == IF n > Len(s) THEN 0 ELSE s[n].close.v + total(s, n + 1)

\* C14 (as claimed): whenever the statistics of a non-empty window are on
\* the page, current is the price of the last point, which no point is newer
\* than, highest and lowest are the greatest and the least price of the
\* window, and average is the exact quotient of the sum of the prices and
\* their number; 200.5 and 210 give 210, 210, 200.5 and 205.25.
C14_StatsEqualReference ==
  statsRendered =>
    LET n == Len(data)
        s == render.stats
    IN  /\ s.current = cellOf(data[n].close)
        /\ \A i \in 1..n : getTime(data[i].originalDate) <= getTime(data[n].originalDate)
        /\ s.highest.kind = "number" /\ s.highest.den = 1
        /\ \E i \in 1..n : ~data[i].close.nan /\ data[i].close.v = s.highest.num
        /\ \A i \in 1..n : ~data[i].close.nan /\ data[i].close.v <= s.highest.num
        /\ s.lowest.kind = "number" /\ s.lowest.den = 1
        /\ \E i \in 1..n : ~data[i].close.nan /\ data[i].close.v = s.lowest.num
        /\ \A i \in 1..n : ~data[i].close.nan /\ data[i].close.v >= s.lowest.num
        /\ s.average = Cell("number", total(data, 1), n)
        /\ [i \in 1..n |-> data[i].close] = <<Num(20050), Num(21000)>> =>
             /\ s.current = Cell("number", 21000, 1)
             /\ s.highest = Cell("number", 21000, 1)
             /\ s.lowest = Cell("number", 20050, 1)
             /\ s.average.num = 20525 * s.average.den

\* C15: the window that comes out of map / sort / slice, handed in again
\* as raw records with the same granularity, comes out unchanged, also when
\* records share a timestamp.
C15_NormalizeIdempotent ==
  pipe.step = "again" => pipe.again = pipe.sortedData

\* C15 witness: a list that was not in order, with two different records at
\* one instant, has gone through the pipeline twice.
C15_Witness ==
  /\ pipe.step = "again"
  /\ pipe.sortedData # chartData(pipe.candles, pipe.timeFrame)
  /\ \E i \in 1..(Len(pipe.again) - 1) :
       /\ getTime(pipe.again[i].originalDate) = getTime(pipe.again[i + 1].originalDate)
       /\ pipe.again[i].close # pipe.again[i + 1].close

\* C16 (as claimed): the mount owes one fetch; every selection and every
\* Retry adds exactly one fetch, that the event issues or leaves to the
\* effect; the effect issues the fetch it owes, and a response, failed or
\* not, is followed by no fetch of its own.
C16_OneFetchPerEvent ==
  /\ [](last.op = "mount" => pendingFetches = 1)
  /\ [][ /\ last'.op \in {"select", "retry"} => pendingFetches' = pendingFetches + 1
         /\ last'.op = "effect" =>
              pendingFetches' = pendingFetches /\ outstanding' = outstanding + 1
         /\ last'.op = "response" => outstanding' = outstanding
         /\ last'.op = "resume" =>
              pendingFetches' = pendingFetches - 1 /\ outstanding' = outstanding - 1 ]_vars

\* C16 (amended): as above, but only the selection of another granularity
\* than the active one adds a fetch; selecting the active one adds none.
C16_OneFetchPerChange ==
  /\ [](last.op = "mount" => (pendingFetches = 1 /\ outstanding = 0))
  /\ [][ /\ last'.op = "retry" => pendingFetches' = pendingFetches + 1
         /\ (last'.op = "select" /\ last'.timeFrame # activeTimeFrame) =>
              pendingFetches' = pendingFetches + 1
         /\ (last'.op = "select" /\ last'.timeFrame = activeTimeFrame) =>
              (pendingFetches' = pendingFetches /\ inflight' = inflight)
         /\ last'.op = "effect" =>
              pendingFetches' = pendingFetches /\ outstanding' = outstanding + 1
         /\ last'.op = "response" => outstanding' = outstanding
         /\ last'.op = "resume" =>
              pendingFetches' = pendingFetches - 1 /\ outstanding' = outstanding - 1 ]_vars

\* C16 witness: after a failed fetch the active granularity was selected
\* again: nothing is in flight and nothing is owed, the message and Retry
\* stay on the page.
C16_Witness ==
  /\ last.op = "select"
  /\ last.timeFrame = activeTimeFrame
  /\ pendingFetches = 0
  /\ retryRendered
  /\ ~loading

\* C17 (as claimed): whenever the chart and the statistics are on the page,
\* under the heading of activeTimeFrame, data is the window of a fetchData
\* call made for that activeTimeFrame, also right after a selection.
C17_WindowOfActiveTimeFrame ==
  statsRendered => (render.heading = activeTimeFrame /\ dataTimeFrame = activeTimeFrame)

\* C18 (as claimed): at most one request is awaiting its response.
C18_OneFetchOutstanding ==
  outstanding <= 1

\* C19 (as claimed): loading and an error message never hold together,
\* loading holds exactly while a request is awaiting its response, a step
\* that issues a request clears the message, and a step that takes a response
\* ends loading and sets the message if and only if the response failed.
C19_StatusExclusive ==
  /\ [](~(loading /\ error # Null))
  /\ [](loading <=> outstanding > 0)
  /\ [][ /\ outstanding' > outstanding => (loading' /\ error' = Null)
         /\ last'.op = "resume" =>
              /\ ~loading'
              /\ isFailure(last'.resp) => error' # Null
              /\ ~isFailure(last'.resp) => error' = error ]_vars

\* C20: a selection, the effect that starts a fetch, Retry, a response whose
\* body is still to come and a fetch that failed leave data as it was; a response that succeeded replaces data
\* by the window made of its candles alone, for the timeFrame it was
\* requested for.
C20_OnlySuccessChangesData ==
  [][ /\ last'.op \in {"select", "effect", "retry", "response"} =>
           (data' = data /\ dataTimeFrame' = dataTimeFrame)
      /\ (last'.op = "resume" /\ isFailure(last'.resp)) =>
           (data' = data /\ dataTimeFrame' = dataTimeFrame)
      /\ (last'.op = "resume" /\ ~isFailure(last'.resp)) =>
           /\ data' = windows(IF last'.resp.candles = "array" THEN last'.resp.items ELSE <<>>,
                              last'.timeFrame)
           /\ dataTimeFrame' = last'.timeFrame ]_vars

\* C20 witness: the request of the active granularity has failed and the
\* window in data is still the one loaded earlier for another granularity.
C20_Witness ==
  /\ resumed
  /\ isFailure(last.resp)
  /\ last.timeFrame = activeTimeFrame
  /\ outstanding = 0
  /\ error # Null
  /\ Len(data) > 0
  /\ dataTimeFrame \in timeFrames \ {activeTimeFrame}

====
